---- MODULE Spec2Model ----
(***************************************************************************)
(* Model of the code review agent: the retry state machine of              *)
(* agents/graph.py (review -> fix -> execute -> evaluate), the sandboxed   *)
(* executor of tools/executor.py with its temporary file and its child     *)
(* process, and the safety gate of tools/linter.py.  The safety gate, the   *)
(* reply parser parse_json_response, the list normalisation, the schema    *)
(* adaptation and the duplicate-key repair of agents/graph.py are also run *)
(* by themselves, each in a specification of its own (GateSpec,            *)
(* ParserSpec, NormalizeSpec, AdaptSpec, RepairSpec).  ReconfigSpec is the *)
(* run with the Apply Settings button of app.py pressed while it is in     *)
(* flight.                                                                 *)
(*                                                                         *)
(* A piece of Python code is a sequence of statements; a statement is a    *)
(* record [kind, arg].  The empty sequence is the empty string.            *)
(***************************************************************************)
EXTENDS Integers, Sequences, FiniteSets, TLC

(***************************************************************************)
(* Bounds of the model.                                                    *)
(***************************************************************************)
\* config.max_retries ranges over 0 .. MaxRetriesBound
MaxRetriesBound == 3
\* the texts given to the duplicate-key repair by itself have at most MaxLines lines
MaxLines == 3
\* Apply Settings is pressed at most MaxApplies times while a run is in flight
MaxApplies == 1
\* the scripts given to the safety gate by itself have at most MaxStmts statements
MaxStmts == 2
\* the replies given to the parser by itself have at most MaxSegs segments
MaxSegs == 2
\* the lists given to the list normalisation by itself have at most MaxItems items
MaxItems == 2

(***************************************************************************)
(* Code: statements and the pool of scripts the runs are fed with.         *)
(***************************************************************************)
\* config.blocked_imports (two of its entries stand for the list)
blocked_imports == <<"os", "sys">>

\* arg is a sequence of strings: the dotted module name of an import (os.path is
\* <<"os", "path">>), the builtin of a call, empty otherwise.  The kinds:
\*   import, from      import m / from m import x
\*   dunder_import     __import__('m')
\*   call              eval(...), exec(...), compile(...)
\*   method_call       a call of an attribute of that name, as re.compile(...)
\*   mention           a comment or a string literal that holds the words import m
\*   plain, syntax_error, surrogate
Stmt(kind, arg) == [kind |-> kind, arg |-> arg]

\* x = 1
PlainStmt == Stmt("plain", << >>)
\* a line Python cannot parse: ast.parse raises SyntaxError, the child exits non-zero
BrokenStmt == Stmt("syntax_error", << >>)
\* a literal holding a lone surrogate: ast.parse raises UnicodeEncodeError
SurrogateStmt == Stmt("surrogate", << >>)

EmptyCode == << >>

\* The scripts proposed by the model service.
CodePool ==
    { EmptyCode,
      <<PlainStmt>>,
      <<BrokenStmt>>,
      <<Stmt("import", <<"os">>)>>,
      <<Stmt("call", <<"eval">>)>>,
      <<SurrogateStmt>> }

\* The scripts given to run_agent: the text of the input box, stripped, is not
\* empty and holds no lone surrogate.
InputCodes == CodePool \ {EmptyCode, <<SurrogateStmt>>}

(***************************************************************************)
(* The safety gate, tools/linter.py.                                       *)
(***************************************************************************)
Range(s) == { s[i] : i \in DOMAIN s }

\* the iteration orders of set(config.blocked_imports): Python fixes none
BlockedOrders ==
    { o \in [1 .. Len(blocked_imports) -> Range(blocked_imports)] :
        Range(o) = Range(blocked_imports) }

ImportKinds == {"import", "from"}

\* ast.parse(code): encoding the source comes first, then the grammar
ast_parse(code) ==
    IF \E i \in DOMAIN code : code[i].kind = "surrogate" THEN "UnicodeEncodeError"
    ELSE IF \E i \in DOMAIN code : code[i].kind = "syntax_error" THEN "SyntaxError"
    ELSE "ok"

\* name.split('.')[0]
top_level(name) == Head(name)

IsBlockedImport(st) ==
    /\ st.kind \in ImportKinds
    /\ top_level(st.arg) \in Range(blocked_imports)

IsBlockedDunder(st) ==
    /\ st.kind = "dunder_import"
    /\ top_level(st.arg) \in Range(blocked_imports)

RootsOf(stmts) == [i \in DOMAIN stmts |-> top_level(stmts[i].arg)]

\* Step 1: ast.walk is breadth first, so the import statements of the module are
\* met before the __import__ calls nested in expression statements; every hit is
\* appended.  A SyntaxError leaves found_blocked empty.
ast_found(code) ==
    IF ast_parse(code) = "ok"
    THEN RootsOf(SelectSeq(code, IsBlockedImport)) \o RootsOf(SelectSeq(code, IsBlockedDunder))
    ELSE << >>

\* name.startswith(prefix), for the names of the model
starts_with(name, prefix) == name = prefix \/ (name = "ossify" /\ prefix = "os")

\* Step 2: one of the three patterns for blocked_module matches the text.  The
\* first two end in \b and match the words wherever they stand, in a comment or a
\* string too; the third has no \b after the name and matches a longer name that
\* starts with it.
regex_hit(code, blocked_module) ==
    \E i \in DOMAIN code :
        \/ /\ code[i].kind \in ImportKinds \cup {"mention"}
           /\ top_level(code[i].arg) = blocked_module
        \/ /\ code[i].kind = "dunder_import"
           /\ starts_with(top_level(code[i].arg), blocked_module)

RECURSIVE regex_found(_, _, _)
regex_found(code, order, found) ==
    IF order = << >> THEN found
    ELSE LET m == Head(order)
             next == IF regex_hit(code, m) /\ m \notin Range(found)
                     THEN Append(found, m) ELSE found
         IN  regex_found(code, Tail(order), next)

\* Step 3: the dangerous patterns, in the order of the list
dangerous_patterns == <<"eval", "exec", "compile">>

\* \bname\s*\( matches after a dot as well
dangerous_hit(code, builtin) ==
    \E i \in DOMAIN code :
        code[i].kind \in {"call", "method_call"} /\ code[i].arg = <<builtin>>

NoReason == [kind |-> "none", detail |-> << >>]
DynamicReason(builtin) == [kind |-> "not allowed", detail |-> <<builtin>>]
BlockedReason(found) == [kind |-> "blocked imports", detail |-> found]

\* check_code_safety(code), with the iteration order of the blocked set; the
\* exception of ast.parse that is no SyntaxError is not caught
check_code_safety(code, order) ==
    LET found_blocked == regex_found(code, order, ast_found(code))
        hits == SelectSeq(dangerous_patterns, LAMBDA b : dangerous_hit(code, b))
    IN  IF ast_parse(code) = "UnicodeEncodeError"
        THEN [raised |-> TRUE, safe |-> FALSE, reason |-> NoReason, blocked_imports |-> << >>]
        ELSE IF hits # << >>
        THEN [raised |-> FALSE, safe |-> FALSE, reason |-> DynamicReason(Head(hits)),
              blocked_imports |-> found_blocked]
        ELSE IF found_blocked # << >>
        THEN [raised |-> FALSE, safe |-> FALSE, reason |-> BlockedReason(found_blocked),
              blocked_imports |-> found_blocked]
        ELSE [raised |-> FALSE, safe |-> TRUE, reason |-> NoReason, blocked_imports |-> << >>]

(***************************************************************************)
(* ExecutionResult, models/schemas.py.  error is None, the empty string    *)
(* (a standard error of white space only, stripped) or a message.          *)
(***************************************************************************)
Err(kind, reason) == [kind |-> kind, reason |-> reason]
NoError == Err("None", NoReason)

\* bool(error): None and "" are false
Truthy(error) == error.kind \notin {"None", ""}

ExecutionResult(success, error, execution_time, blocked) ==
    [success |-> success, error |-> error, execution_time |-> execution_time,
     blocked_import_detected |-> blocked]

BlockedResult_timed(reason) ==
    [success |-> FALSE, error |-> [kind |-> "Security Error", reason |-> reason],
     execution_time |-> "elapsed", blocked_import_detected |-> FALSE]
\* execution_time: "0.0" is the literal of the blocked path, "elapsed" is
\* time.time() - start_time
BlockedResult(reason) ==
    ExecutionResult(FALSE, Err("Security Error", reason), "0.0", TRUE)
SuccessResult == ExecutionResult(TRUE, NoError, "elapsed", FALSE)
\* result.stderr.strip() if result.stderr else "Unknown error"
StderrOf(stderr) ==
    IF stderr = "none" THEN Err("Unknown error", NoReason)
    ELSE IF stderr = "blank" THEN Err("", NoReason)
    ELSE Err("stderr", NoReason)
NonZeroResult(stderr) == ExecutionResult(FALSE, StderrOf(stderr), "elapsed", FALSE)
TimeoutResult == ExecutionResult(FALSE, Err("timed out", NoReason), "elapsed", FALSE)
FailedResult == ExecutionResult(FALSE, Err("Execution failed", NoReason), "elapsed", FALSE)

(***************************************************************************)
(* State.                                                                  *)
(***************************************************************************)
VARIABLES
    max_retries,       \* config.max_retries
    original_code,     \* AgentState
    current_code,
    review,            \* "None", "parsed" or "placeholder"
    execution_result,  \* << >> is None, <<r>> a result
    attempt,
    parse_failures,
    error_history,
    status,
    pc,                \* the node the graph runs next; "END"; "raised"
    exception,         \* what run_agent raised when pc = "raised", else "None"
    exec_pc,           \* where execute_code_safely stands
    tmp_exists,        \* the temporary file of this call is on disk
    tmp_path,          \* the local tmp_path is bound
    child,             \* the process of subprocess.run
    call               \* a call of one function by itself: its input and its result

state == <<original_code, current_code, review, execution_result, attempt,
           parse_failures, error_history, status>>
locals == <<exec_pc, tmp_exists, tmp_path, child>>
vars == <<max_retries, state, pc, exception, locals, call>>

\* no function is called by itself
NoCall == [fn |-> "none"]

NoChild == [st |-> "none", rc |-> 0, stderr |-> "none"]
Running == [st |-> "running", rc |-> 0, stderr |-> "none"]
Exited(rc, stderr) == [st |-> "exited", rc |-> rc, stderr |-> stderr]
Reaped(c) == [c EXCEPT !.st = "reaped"]
\* ended by SIGKILL
Killed == Exited(-9, "none")

\* run_agent / run_agent_stream: the initial state
Init ==
    /\ max_retries \in 0 .. MaxRetriesBound
    /\ original_code \in InputCodes
    /\ current_code = original_code
    /\ review = "None"
    /\ execution_result = << >>
    /\ attempt = 0
    /\ parse_failures = 0
    /\ error_history = << >>
    /\ status = "reviewing"
    /\ pc = "review"
    /\ exception = "None"
    /\ exec_pc = "idle"
    /\ tmp_exists = FALSE
    /\ tmp_path = FALSE
    /\ child = NoChild
    /\ call = NoCall

(***************************************************************************)
(* review_node.  The reply of the model service is what the call does and  *)
(* what parse_json_response makes of the text.                             *)
(***************************************************************************)
ReviewReplies == {"raises", "parsed", "unparsed"}

review_node(reply) ==
    /\ pc = "review"
    /\ IF reply = "raises"
       THEN /\ pc' = "raised"
            /\ exception' = "ConnectionError"
            /\ UNCHANGED <<state, max_retries, call, locals>>
       ELSE /\ review' = IF reply = "parsed" THEN "parsed" ELSE "placeholder"
            /\ parse_failures' = IF reply = "parsed" THEN parse_failures
                                 ELSE parse_failures + 1
            /\ status' = "reviewing"
            /\ pc' = "fix"
            /\ UNCHANGED <<original_code, current_code, execution_result, attempt,
                           error_history, max_retries, call, exception, locals>>

(***************************************************************************)
(* fix_node.  A reply is: the call raises; or json = <<c>>, the code of    *)
(* the FixedCode that parse_json_response returns; or json = << >> and     *)
(* extracted is what _extract_code_from_response returns (<< >> is None;   *)
(* it never returns the empty string).                                     *)
(***************************************************************************)
FixReply(raises, json, extracted) ==
    [raises |-> raises, json |-> json, extracted |-> extracted]

FixReplies ==
    {FixReply(TRUE, << >>, << >>)}
    \cup { FixReply(FALSE, <<c>>, << >>) : c \in CodePool }
    \cup { FixReply(FALSE, << >>, e) :
             e \in {<< >>} \cup { <<c>> : c \in CodePool \ {EmptyCode} } }

too_many_parse_failures_single(failures, retries) == failures >= retries
\* the parse-failure guard of fix_node
too_many_parse_failures(failures, retries) == failures >= retries * 2

fix_node_salvage_uncounted(reply) ==
    /\ pc = "fix"
    /\ IF reply.raises
       THEN /\ pc' = "raised"
            /\ exception' = "ConnectionError"
            /\ UNCHANGED <<state, max_retries, call, locals>>
       ELSE LET salvaged == /\ reply.extracted # << >>
                            /\ reply.extracted[1] # EmptyCode
                            /\ reply.extracted[1] # current_code
                failures == IF reply.json # << >> \/ salvaged THEN parse_failures
                            ELSE parse_failures + 1
                new_code ==
                    IF reply.json # << >> THEN reply.json[1]
                    ELSE IF salvaged THEN reply.extracted[1]
                    ELSE current_code
            IN  /\ current_code' = new_code
                /\ parse_failures' = failures
                /\ status' = IF too_many_parse_failures(failures, max_retries)
                             THEN "failed" ELSE "fixing"
                /\ pc' = "execute"
                /\ UNCHANGED <<original_code, review, execution_result, attempt,
                               error_history, max_retries, call, exception, locals>>

fix_node(reply) ==
    /\ pc = "fix"
    /\ IF reply.raises
       THEN /\ pc' = "raised"
            /\ exception' = "ConnectionError"
            /\ UNCHANGED <<state, max_retries, call, locals>>
       ELSE LET failures == IF reply.json # << >> THEN parse_failures
                            ELSE parse_failures + 1
                new_code ==
                    IF reply.json # << >> THEN reply.json[1]
                    ELSE IF /\ reply.extracted # << >>
                            /\ reply.extracted[1] # EmptyCode
                            /\ reply.extracted[1] # current_code
                    THEN reply.extracted[1]
                    ELSE current_code
            IN  /\ current_code' = new_code
                /\ parse_failures' = failures
                /\ status' = IF too_many_parse_failures(failures, max_retries)
                             THEN "failed" ELSE "fixing"
                \* workflow.add_edge("fix", "execute")
                /\ pc' = "execute"
                /\ UNCHANGED <<original_code, review, execution_result, attempt,
                               error_history, max_retries, call, exception, locals>>

(***************************************************************************)
(* execute_node and execute_code_safely.  The call is taken in steps, one  *)
(* per system call that can fail or block; the step that ends the call     *)
(* runs the finally clause and the rest of execute_node.                   *)
(***************************************************************************)
finally_clause_skipped(bound, exists) == exists
\* finally: if 'tmp_path' in locals(): tmp_path.unlink(missing_ok=True)
finally_clause(bound, exists) == IF bound THEN FALSE ELSE exists

record_error_first(history, result) ==
    IF ~result.success /\ Truthy(result.error)
    THEN <<result.error>> \o history ELSE history

record_error_always(history, result) == Append(history, result.error)
\* execute_node: error_history gets the error of a failed result, if it has one
record_error(history, result) ==
    IF ~result.success /\ Truthy(result.error)
    THEN Append(history, result.error) ELSE history

Return_rebased(result, in_try) ==
    /\ tmp_exists' = IF in_try THEN finally_clause(tmp_path, tmp_exists) ELSE FALSE
    /\ exec_pc' = "idle"
    /\ execution_result' = <<result>>
    /\ error_history' = record_error(error_history, result)
    /\ status' = "executing"
    /\ pc' = "evaluate"
    /\ original_code' = current_code
    /\ UNCHANGED <<current_code, review, attempt, parse_failures,
                   max_retries, call, exception>>

\* execute_code_safely returns result (after its finally clause, when the try
\* block was entered) and execute_node updates the state
Return(result, in_try) ==
    /\ tmp_exists' = IF in_try THEN finally_clause(tmp_path, tmp_exists) ELSE FALSE
    /\ exec_pc' = "idle"
    /\ execution_result' = <<result>>
    /\ error_history' = record_error(error_history, result)
    /\ status' = "executing"
    \* workflow.add_edge("execute", "evaluate")
    /\ pc' = "evaluate"
    /\ UNCHANGED <<original_code, current_code, review, attempt, parse_failures,
                   max_retries, call, exception>>

\* Step 1: the safety check, outside the try block
ExecGate ==
    /\ pc = "execute"
    /\ exec_pc = "idle"
    /\ \E order \in BlockedOrders :
         LET verdict == check_code_safety(current_code, order)
         IN  IF verdict.raised
             THEN /\ pc' = "raised"
                  /\ exception' = "UnicodeEncodeError"
                  /\ UNCHANGED <<state, max_retries, call, locals>>
             ELSE IF ~verdict.safe
             THEN /\ tmp_path' = FALSE
                  /\ child' = NoChild
                  /\ Return(BlockedResult(verdict.reason), FALSE)
             ELSE /\ exec_pc' = "create"
                  /\ tmp_exists' = FALSE
                  /\ tmp_path' = FALSE
                  /\ child' = NoChild
                  /\ UNCHANGED <<state, max_retries, call, pc, exception>>

\* Step 2a: tempfile.NamedTemporaryFile(mode="w", suffix=".py", delete=False)
CreateTemp(ok) ==
    /\ exec_pc = "create"
    /\ IF ok
       THEN /\ tmp_exists' = TRUE
            /\ exec_pc' = "write"
            /\ UNCHANGED <<state, max_retries, call, pc, exception, tmp_path, child>>
       ELSE /\ Return(FailedResult, TRUE)
            /\ UNCHANGED <<tmp_path, child>>

\* Step 2b: tmp_file.write(code) and the close of the with block; tmp_path is
\* bound only after the write
WriteTemp(ok) ==
    /\ exec_pc = "write"
    /\ IF ok
       THEN /\ tmp_path' = TRUE
            /\ exec_pc' = "spawn"
            /\ UNCHANGED <<state, max_retries, call, pc, exception, tmp_exists, child>>
       ELSE /\ Return(FailedResult, TRUE)
            /\ UNCHANGED <<tmp_path, child>>

\* Step 3: subprocess.run starts the child
Spawn(ok) ==
    /\ exec_pc = "spawn"
    /\ IF ok
       THEN /\ child' = Running
            /\ exec_pc' = "wait"
            /\ UNCHANGED <<state, max_retries, call, pc, exception, tmp_exists, tmp_path>>
       ELSE /\ Return(FailedResult, TRUE)
            /\ UNCHANGED <<tmp_path, child>>

\* what the script can end with: a script that does not parse exits non-zero with
\* a traceback, the empty script exits 0
ExitsOf(code) ==
    IF ast_parse(code) = "SyntaxError" THEN {<<1, "text">>}
    ELSE IF code = EmptyCode THEN {<<0, "none">>}
    ELSE {<<0, "none">>, <<1, "text">>, <<1, "blank">>, <<1, "none">>}

\* the child ends by itself, while the parent waits or is about to kill it
ChildExit(rc, stderr) ==
    /\ child.st = "running"
    /\ <<rc, stderr>> \in ExitsOf(current_code)
    /\ child' = Exited(rc, stderr)
    /\ UNCHANGED <<state, max_retries, call, pc, exception, exec_pc, tmp_exists, tmp_path>>

ResultOf_keeps_stderr(rc, stderr) ==
    ExecutionResult(rc = 0, StderrOf(stderr), "elapsed", FALSE)
\* Step 4: communicate() has the exit of the child; the result by return code
ResultOf(rc, stderr) == IF rc = 0 THEN SuccessResult ELSE NonZeroResult(stderr)

CommunicateReturns ==
    /\ exec_pc = "wait"
    /\ child.st = "exited"
    /\ child' = Reaped(child)
    /\ Return(ResultOf(child.rc, child.stderr), TRUE)
    /\ UNCHANGED tmp_path

\* communicate() raises something else (the output of the child does not decode):
\* subprocess.run kills the child, the exit of its with block waits for it, and
\* the except Exception clause takes over
CommunicateRaises ==
    /\ exec_pc = "wait"
    /\ child.st = "exited"
    /\ child' = Reaped(child)
    /\ Return(FailedResult, TRUE)
    /\ UNCHANGED tmp_path

\* config.execution_timeout elapses in communicate(): TimeoutExpired, whether or
\* not the child has ended in the meantime
no_deadline(where) == FALSE
\* subprocess.run(..., timeout=config.execution_timeout): the deadline runs while
\* the parent waits in communicate()
deadline_runs(where) == where = "wait"

TimeoutExpires ==
    /\ deadline_runs(exec_pc)
    /\ exec_pc' = "kill"
    /\ UNCHANGED <<state, max_retries, call, pc, exception, tmp_exists, tmp_path, child>>

on_timeout_no_kill(c) == c
\* subprocess.run on TimeoutExpired: process.kill(), process.wait(), raise; then
\* the except clause of execute_code_safely
on_timeout(c) == Reaped(IF c.st = "running" THEN Killed ELSE c)

TimeoutHandler ==
    /\ exec_pc = "kill"
    /\ child' = on_timeout(child)
    /\ Return(TimeoutResult, TRUE)
    /\ UNCHANGED tmp_path

(***************************************************************************)
(* evaluate_node and should_continue.                                      *)
(***************************************************************************)
stuck_loop_off(failures, new_attempt, current, original) == FALSE
stuck_loop_late(failures, new_attempt, current, original) ==
    /\ failures > 0
    /\ new_attempt > 2
    /\ current = original
\* the stuck-loop guard of evaluate_node
stuck_loop(failures, new_attempt, current, original) ==
    /\ failures > 0
    /\ new_attempt > 1
    /\ current = original

retries_exhausted_doubled(new_attempt, retries) == new_attempt >= retries * 2
retries_exhausted_late(new_attempt, retries) == new_attempt > retries
retries_exhausted(new_attempt, retries) == new_attempt >= retries

next_attempt_twice(a) == a + 2
\* new_attempt = attempt + 1
next_attempt(a) == a + 1

should_continue_always_end(st) == "end"
\* the edge after evaluate: end for success and failed, fix otherwise
should_continue(st) == IF st \in {"success", "failed"} THEN "end" ELSE "fix"

evaluate_node ==
    /\ pc = "evaluate"
    /\ LET new_attempt == next_attempt(attempt)
       IN  IF execution_result # << >> /\ execution_result[1].success
           THEN /\ status' = "success"
                /\ attempt' = attempt
           ELSE /\ attempt' = new_attempt
                /\ status' =
                     IF stuck_loop(parse_failures, new_attempt, current_code, original_code)
                     THEN "failed"
                     ELSE IF retries_exhausted(new_attempt, max_retries)
                     THEN "failed"
                     ELSE "fixing"
    /\ pc' = IF should_continue(status') = "end" THEN "END" ELSE "fix"
    /\ UNCHANGED <<original_code, current_code, review, execution_result,
                   parse_failures, error_history, max_retries, call, exception, locals>>

(***************************************************************************)
(* The run.                                                                *)
(***************************************************************************)
\* the steps of the thread that runs the graph, the deadline included
Step ==
    \/ \E reply \in ReviewReplies : review_node(reply)
    \/ \E reply \in FixReplies : fix_node(reply)
    \/ ExecGate
    \/ \E ok \in BOOLEAN : CreateTemp(ok)
    \/ \E ok \in BOOLEAN : WriteTemp(ok)
    \/ \E ok \in BOOLEAN : Spawn(ok)
    \/ CommunicateReturns
    \/ CommunicateRaises
    \/ TimeoutExpires
    \/ TimeoutHandler
    \/ evaluate_node

\* the steps of the child process
ChildStep ==
    \E rc \in {0, 1}, stderr \in {"none", "blank", "text"} : ChildExit(rc, stderr)

Next == Step \/ ChildStep

Spec == Init /\ [][Next]_vars

\* the run is one thread and every call returns: a step of the thread that can be
\* taken is taken.  Nothing makes the child end.
FairSpec == Spec /\ WF_vars(Step)

(***************************************************************************)
(* Claims.                                                                 *)
(***************************************************************************)
Terminal == pc = "END" /\ status \in {"success", "failed"}

Verdicts == { check_code_safety(current_code, order) : order \in BlockedOrders }
Returned == pc = "evaluate"
Result == execution_result[1]

\* C2: for code the gate finds unsafe, execute_code_safely returns success=false,
\* blocked_import_detected=true, the gate's reason as error and execution_time 0,
\* with no temporary file written and no child spawned.
C2_UnsafeNeverExecuted ==
    (Returned /\ \E v \in Verdicts : ~v.raised /\ ~v.safe) =>
        /\ ~Result.success
        /\ Result.blocked_import_detected
        /\ \E v \in Verdicts : Result.error = Err("Security Error", v.reason)
        /\ Result.execution_time = "0.0"
        /\ ~tmp_exists /\ ~tmp_path /\ child = NoChild

\* the gate has rejected a script for a call of eval
C2_Witness ==
    /\ Returned
    /\ current_code = <<Stmt("call", <<"eval">>)>>
    /\ Result.error = Err("Security Error", DynamicReason("eval"))

\* C3: once a Fixing pass has brought parse_failures to 2 x max_retries
\* the run is over with status failed: no Executing pass follows.
C3_FirstGuardEndsRun ==
    ( /\ max_retries >= 1
      /\ too_many_parse_failures(parse_failures, max_retries)
      /\ pc \in {"execute", "evaluate", "END"} )
    => (pc = "END" /\ status = "failed")

Max(a, b) == IF a >= b THEN a ELSE b

C5_SecondGuard ==
    [][ ( /\ pc = "evaluate"
          /\ ~Result.success
          /\ parse_failures >= 1
          /\ attempt + 1 > 1
          /\ current_code = original_code )
        => (pc' = "END" /\ status' = "failed" /\ attempt' = attempt + 1) ]_vars

\* the guard has ended a run that had retries left
C5_Witness ==
    /\ pc = "END" /\ status = "failed"
    /\ attempt > 1 /\ attempt < max_retries
    /\ parse_failures >= 1
    /\ current_code = original_code

\* C6: Len(error_history) <= attempt in every state, the states
\* between two passes included.
C6_Original == Len(error_history) <= attempt

\* C6 (amended): Len(error_history) <= attempt in every state but the one an
\* Executing pass yields, where it is <= attempt + 1 until the Evaluating pass
\* has counted the attempt.
C6_HistoryBound ==
    Len(error_history) <= attempt + (IF pc = "evaluate" THEN 1 ELSE 0)

\* a failed execution of a retry is in the history and not yet counted
C6_Witness == pc = "evaluate" /\ attempt >= 1 /\ Len(error_history) = attempt + 1

\* C7: when a call that passed the gate returns, its temporary file
\* is gone, on every exit path.
C7_ScopedTempFile == Returned => ~tmp_exists

\* C8: spawn failure, file failure and timeout give success=false,
\* and no exception of a step of execute_code_safely reaches the caller.
C8_FailureContainment ==
    /\ (Returned /\ Result.error.kind \in {"Execution failed", "timed out"})
         => ~Result.success
    /\ exception \notin {"UnicodeEncodeError"}

\* C9: when the timeout has elapsed the child is killed and reaped and the call
\* returns success=false with the timed-out message and
\* blocked_import_detected=false.
C9_TimeoutOutcome ==
    [][ exec_pc = "kill" =>
          \/ UNCHANGED <<exec_pc, execution_result>>
          \/ /\ exec_pc' = "idle"
             /\ child'.st = "reaped"
             /\ ~execution_result'[1].success
             /\ execution_result'[1].error.kind = "timed out"
             /\ ~execution_result'[1].blocked_import_detected ]_vars

\* the watchdog has killed a child that was still running
C9_Witness ==
    /\ Returned
    /\ Result.error.kind = "timed out"
    /\ child = Reaped(Killed)

\* C10: when a call that has spawned a child returns, the child is not running
\* (it has ended and is reaped) and the temporary file is removed.
C10_NothingLeftBehind ==
    (exec_pc = "idle" /\ child.st # "none") => (child.st = "reaped" /\ ~tmp_exists)

\* the deadline passed although the child had just ended by itself
C10_Witness ==
    /\ Returned
    /\ Result.error.kind = "timed out"
    /\ child.st = "reaped" /\ child.rc = 0
    /\ ~tmp_exists

\* C11: an Evaluating pass on a successful result sets status success and leaves
\* attempt; on a failed result it adds exactly one to attempt and, when the
\* stuck-loop guard does not apply, ends the run in failed if and only if the new
\* attempt >= max_retries and otherwise goes back to Fixing.
C11_EvaluatingDecision ==
    [][ pc = "evaluate" =>
          \/ UNCHANGED vars
          \/ /\ Result.success
             /\ status' = "success" /\ attempt' = attempt /\ pc' = "END"
          \/ /\ ~Result.success
             /\ attempt' = attempt + 1
             /\ ~(parse_failures > 0 /\ attempt + 1 > 1 /\ current_code = original_code)
                  => /\ (status' = "failed") <=> (attempt + 1 >= max_retries)
                     /\ (status' # "failed") => (status' = "fixing" /\ pc' = "fix")
                     /\ (status' = "failed") => pc' = "END" ]_vars

\* a failed attempt within the budget has sent the run back to Fixing
C11_Witness ==
    /\ pc = "fix" /\ status = "fixing"
    /\ attempt = 2 /\ max_retries = 3
    /\ ~Result.success

\* the parse failures of the Fixing passes: review_node has added one to
\* parse_failures exactly when it has left the placeholder review
fix_parse_failures == parse_failures - (IF review = "placeholder" THEN 1 ELSE 0)

\* the second Evaluating pass of a run whose two executions failed, whose two
\* Fixing passes both failed to parse, and whose code is the original code
SecondPassStuck ==
    /\ pc = "evaluate"
    /\ attempt = 1
    /\ ~Result.success
    /\ fix_parse_failures = 2
    /\ current_code = original_code

\* C12: for every max_retries >= 2 that pass ends the run in failed
\* with the final attempt < max_retries.
C12_Original ==
    [][ (SecondPassStuck /\ max_retries >= 2) =>
          \/ UNCHANGED vars
          \/ pc' = "END" /\ status' = "failed" /\ attempt' < max_retries ]_vars

\* C12 (amended): for every max_retries >= 2 that pass ends the run in failed with
\* the final attempt = 2, which is below max_retries exactly when max_retries >= 3.
C12_StuckLoopScenario ==
    [][ (SecondPassStuck /\ max_retries >= 2) =>
          \/ UNCHANGED vars
          \/ /\ pc' = "END" /\ status' = "failed" /\ attempt' = 2
             /\ (attempt' < max_retries) <=> (max_retries >= 3) ]_vars

\* the guard has ended such a run of budget 3 after its second attempt
C12_Witness ==
    /\ pc = "END" /\ status = "failed"
    /\ max_retries = 3 /\ attempt = 2
    /\ fix_parse_failures = 2
    /\ current_code = original_code

\* C13: every ExecutionResult returned has error None when success is true, and
\* success false when blocked_import_detected is true.
C13_ResultInvariant ==
    execution_result # << >> =>
        /\ Result.success => Result.error = NoError
        /\ Result.blocked_import_detected => ~Result.success

\* a successful result, returned in a run in which the gate had blocked a script
C13_Witness ==
    /\ Returned
    /\ Result.success /\ Result.error = NoError
    /\ \E i \in DOMAIN error_history : error_history[i].kind = "Security Error"

(***************************************************************************)
(* The safety gate called by itself: check_code_safety(code) on every      *)
(* script of at most MaxStmts statements.                                  *)
(***************************************************************************)
\* the statements the gate tells apart: the four ways to name a module, for a
\* listed and an unlisted module, the three dangerous calls, the lines ast.parse
\* fails on, and three lines that import and call nothing listed: a comment that
\* says import os, re.compile(...), and __import__('ossify')
GateStmts ==
    { PlainStmt, BrokenStmt, SurrogateStmt,
      Stmt("import", <<"os">>), Stmt("import", <<"sys">>), Stmt("import", <<"math">>),
      Stmt("import", <<"os", "path">>),
      Stmt("from", <<"os">>), Stmt("from", <<"math">>),
      Stmt("dunder_import", <<"os">>), Stmt("dunder_import", <<"math">>),
      Stmt("call", <<"eval">>), Stmt("call", <<"exec">>), Stmt("call", <<"compile">>),
      Stmt("mention", <<"os">>), Stmt("method_call", <<"compile">>),
      Stmt("dunder_import", <<"ossify">>) }

SeqsUpTo(S, n) == UNION { [1 .. k -> S] : k \in 0 .. n }

GateCodes == SeqsUpTo(GateStmts, MaxStmts)

\* no run of the graph: nothing of the agent moves
NoRun ==
    /\ max_retries = 0
    /\ original_code = EmptyCode
    /\ current_code = EmptyCode
    /\ review = "None"
    /\ execution_result = << >>
    /\ attempt = 0
    /\ parse_failures = 0
    /\ error_history = << >>
    /\ status = "reviewing"
    /\ pc = "none"
    /\ exception = "None"
    /\ exec_pc = "idle"
    /\ tmp_exists = FALSE
    /\ tmp_path = FALSE
    /\ child = NoChild

run == <<max_retries, state, pc, exception, locals>>

\* out is << >> until the call is over, then the one-element sequence of what
\* check_code_safety returned
GateInit ==
    /\ NoRun
    /\ \E code \in GateCodes :
         call = [fn |-> "check_code_safety", code |-> code, out |-> << >>]

GateCall ==
    /\ call.fn = "check_code_safety"
    /\ call.out = << >>
    /\ \E order \in BlockedOrders :
         call' = [call EXCEPT !.out = <<check_code_safety(call.code, order)>>]
    /\ UNCHANGED run

GateNext == GateCall

GateSpec == GateInit /\ [][GateNext]_vars

GateDone == call.out # << >>
Verdict == call.out[1]

\* code names module m by import m, import m.sub, from m import x or __import__('m')
References(code, m) ==
    \E i \in DOMAIN code :
        /\ code[i].kind \in {"import", "from", "dunder_import"}
        /\ Head(code[i].arg) = m

\* code calls the builtin
Calls(code, builtin) == Stmt("call", <<builtin>>) \in Range(code)

\* C14: for every code that names a listed module m in one of the
\* four ways, check_code_safety returns safe = false with m in blocked_imports,
\* whether or not the code parses and whether or not it calls eval, exec or compile.
C14_DenylistDetection ==
    \A m \in Range(blocked_imports) :
        (GateDone /\ References(call.code, m)) =>
            /\ ~Verdict.raised
            /\ ~Verdict.safe
            /\ m \in Range(Verdict.blocked_imports)

\* C15: for every code that calls eval, exec or compile,
\* check_code_safety returns safe = false with the reason that names a builtin the
\* code calls, not the blocked-import reason, whatever listed imports it has.
C15_DynamicPriority ==
    (GateDone /\ \E b \in Range(dangerous_patterns) : Calls(call.code, b)) =>
        /\ ~Verdict.raised
        /\ ~Verdict.safe
        /\ Verdict.reason.kind = "not allowed"
        /\ \E b \in Range(dangerous_patterns) :
             Verdict.reason = DynamicReason(b) /\ Calls(call.code, b)

\* C16: check_code_safety returns a verdict for every code and never
\* raises; when ast.parse fails the textual pass alone gives the verdict.
C16_GateNeverRaises ==
    GateDone =>
        /\ ~Verdict.raised
        /\ ast_parse(call.code) # "ok" =>
             ( Verdict.safe <=>
                 /\ \A m \in Range(blocked_imports) : ~References(call.code, m)
                 /\ \A b \in Range(dangerous_patterns) : ~Calls(call.code, b) )

\* C26: a code whose import statements, from-imports and __import__
\* calls all name modules outside the list, and which calls none of eval, exec and
\* compile, gets safe = true, no reason and an empty blocked_imports; stated for
\* the calls that return.
C26_SafeImportsAllowed ==
    ( /\ GateDone
      /\ ~Verdict.raised
      /\ \A m \in Range(blocked_imports) : ~References(call.code, m)
      /\ \A b \in Range(dangerous_patterns) : ~Calls(call.code, b) ) =>
        /\ Verdict.safe
        /\ Verdict.reason = NoReason
        /\ Len(Verdict.blocked_imports) = 0

(***************************************************************************)
(* parse_json_response, agents/graph.py.  A reply of the model service is  *)
(* a sequence of segments: white space, prose, a bare JSON object, a       *)
(* fenced block, an inline code span, a thinking region.  What the parser  *)
(* reads is the text of the reply as a sequence of tokens: Tok(t, s, seg)  *)
(* is a token of type t from segment number seg; s is the shape of a       *)
(* document, the word of a language tag or the name of a thinking tag.     *)
(***************************************************************************)
Schemas == {"CodeReview", "FixedCode"}

\* What a segment holds: words without braces or a text in braces,
\*   fix      {"code": "...", "summary": "..."}
\*   dupfix   a fix whose first key is written twice on consecutive lines, the
\*            first time without its comma
\*   review   {"summary": "...", "issues": []}
\*   wrong    {"issues": "..."}: JSON, of neither schema
\*   garbage  {oops}: not JSON
Contents == {"words", "fix", "dupfix", "review", "wrong", "garbage"}

Segment(kind, tag, content) == [kind |-> kind, tag |-> tag, content |-> content]

Segments ==
    { Segment("blank", "", "words"), Segment("prose", "", "words") }
    \cup { Segment("object", "", c) : c \in Contents \ {"words"} }
    \cup { Segment("fence", t, c) : t \in {"json", "", "python"}, c \in Contents }
    \cup { Segment("inline", "", c) : c \in Contents }
    \cup { Segment("think", "think", c) : c \in Contents }

Texts == SeqsUpTo(Segments, MaxSegs)

Tok(t, s, seg) == [t |-> t, s |-> s, seg |-> seg]

Body(content, seg) ==
    IF content = "words" THEN Tok("words", "", seg) ELSE Tok("doc", content, seg)

\* the text of a segment
TokensOf(sg, seg) ==
    CASE sg.kind = "blank" -> <<Tok("blank", "", seg)>>
      [] sg.kind = "prose" -> <<Tok("words", "", seg)>>
      [] sg.kind = "object" -> <<Body(sg.content, seg)>>
      [] sg.kind = "fence" ->
           <<Tok("fence", "", seg)>>
           \o (IF sg.tag = "" THEN << >> ELSE <<Tok("tag", sg.tag, seg)>>)
           \o <<Body(sg.content, seg), Tok("fence", "", seg)>>
      [] sg.kind = "inline" ->
           <<Tok("tick", "", seg), Body(sg.content, seg), Tok("tick", "", seg)>>
      [] sg.kind = "think" ->
           <<Tok("open", sg.tag, seg), Body(sg.content, seg), Tok("close", sg.tag, seg)>>

\* response: the text of the reply from segment number seg on
RECURSIVE Render(_, _)
Render(text, seg) ==
    IF seg > Len(text) THEN << >>
    ELSE TokensOf(text[seg], seg) \o Render(text, seg + 1)

Minimum(S) == CHOOSE x \in S : \A y \in S : x <= y
Maximum(S) == CHOOSE x \in S : \A y \in S : x >= y

RECURSIVE lstrip(_)
lstrip(s) == IF Len(s) > 0 /\ s[1].t = "blank" THEN lstrip(Tail(s)) ELSE s

RECURSIVE rstrip(_)
rstrip(s) ==
    IF Len(s) > 0 /\ s[Len(s)].t = "blank" THEN rstrip(SubSeq(s, 1, Len(s) - 1)) ELSE s

\* str.strip()
strip(s) == rstrip(lstrip(s))

\* _fix_duplicate_keys_json: of two consecutive lines that start with the same
\* key the first is dropped
fix_duplicate_keys_json(json_str) ==
    [j \in DOMAIN json_str |->
        IF json_str[j].t = "doc" /\ json_str[j].s = "dupfix"
        THEN Tok("doc", "fix", json_str[j].seg) ELSE json_str[j]]

\* json.loads: one JSON value, white space around it allowed
json_loads(json_str) ==
    LET s == strip(json_str)
    IN  IF Len(s) = 1 /\ s[1].t = "doc" /\ s[1].s \in {"fix", "review", "wrong"}
        THEN "decoded" ELSE "JSONDecodeError"

\* model_class(**adapted): CodeReview has a default for every field and ignores
\* the fields it does not know, FixedCode needs code
validate(shape, model_class) ==
    IF shape = "fix" \/ (shape = "review" /\ model_class = "CodeReview")
    THEN "ok" ELSE "ValidationError"

\* the result of a parse: record is the number of the segment whose record is
\* returned, 0 for None; via is the strategy that found it
ParseResult(record, via, raised) == [record |-> record, via |-> via, raised |-> raised]
None == ParseResult(0, "", FALSE)

except_clauses_decode_only(error) ==
    IF error = "JSONDecodeError" THEN None ELSE ParseResult(0, error, TRUE)
\* except json.JSONDecodeError / except Exception: logged, then return None
except_clauses(error) == None

try_parse_and_validate(json_str, source, model_class) ==
    LET error == IF json_loads(json_str) = "decoded"
                 THEN validate(strip(json_str)[1].s, model_class)
                 ELSE json_loads(json_str)
    IN  IF error = "ok"
        THEN ParseResult(strip(json_str)[1].seg, source, FALSE)
        ELSE except_clauses(error)

\* re.findall of a pattern  delim [json] \s* ([\s\S]*?) delim  from token i on:
\* the contents of the matches, left to right, without overlap
RECURSIVE findall(_, _, _, _)
findall(s, i, delim, tagged) ==
    IF i > Len(s) THEN << >>
    ELSE LET opens == /\ s[i].t = delim
                      /\ tagged => /\ i + 1 <= Len(s)
                                   /\ s[i + 1].t = "tag"
                                   /\ s[i + 1].s = "json"
             start == IF tagged THEN i + 2 ELSE i + 1
             closes == { k \in start .. Len(s) : s[k].t = delim }
         IN  IF opens /\ closes # {}
             THEN <<SubSeq(s, start, Minimum(closes) - 1)>>
                  \o findall(s, Minimum(closes) + 1, delim, tagged)
             ELSE findall(s, i + 1, delim, tagged)

\* a fence is three backticks for the pattern of the inline span
RECURSIVE backticks(_)
backticks(s) ==
    IF Len(s) = 0 THEN << >>
    ELSE (IF Head(s).t = "fence"
          THEN <<Tok("tick", "", Head(s).seg), Tok("tick", "", Head(s).seg), Tok("tick", "", Head(s).seg)>>
          ELSE <<Head(s)>>) \o backticks(Tail(s))

Pattern(delim, tagged, source) == [delim |-> delim, tagged |-> tagged, source |-> source]

json_patterns_generic_first ==
    << Pattern("fence", FALSE, "code block (fence)"),
       Pattern("fence", TRUE, "code block (json fence)"),
       Pattern("tick", FALSE, "code block (backtick)") >>
\* json_patterns, in the order of the list
json_patterns ==
    << Pattern("fence", TRUE, "code block (json fence)"),
       Pattern("fence", FALSE, "code block (fence)"),
       Pattern("tick", FALSE, "code block (backtick)") >>

Attempt(json_str, source) == [json_str |-> json_str, source |-> source]

\* for match in re.findall(pattern, cleaned, re.IGNORECASE): match.strip()
block_attempts(cleaned, pattern) ==
    LET matches == findall(IF pattern.delim = "tick" THEN backticks(cleaned) ELSE cleaned,
                           1, pattern.delim, pattern.tagged)
    IN  [j \in DOMAIN matches |-> Attempt(strip(matches[j]), pattern.source)]

brace_span_first(s) ==
    LET braces == { j \in DOMAIN s : s[j].t = "doc" }
    IN  IF braces = {} THEN << >>
        ELSE <<SubSeq(s, Minimum(braces), Minimum(braces))>>
\* cleaned[first_brace:last_brace + 1], if there is a '{' and a later '}'
brace_span(s) ==
    LET braces == { j \in DOMAIN s : s[j].t = "doc" }
    IN  IF braces = {} THEN << >>
        ELSE <<SubSeq(s, Minimum(braces), Maximum(braces))>>

\* re.sub(<name>[\s\S]*?</name>, '', s, flags=re.IGNORECASE) from token i on
RECURSIVE re_sub(_, _, _)
re_sub(s, i, name) ==
    IF i > Len(s) THEN << >>
    ELSE LET closes == { k \in i + 1 .. Len(s) : s[k].t = "close" /\ s[k].s = name }
         IN  IF s[i].t = "open" /\ s[i].s = name /\ closes # {}
             THEN re_sub(s, Minimum(closes) + 1, name)
             ELSE <<s[i]>> \o re_sub(s, i + 1, name)

thinking_patterns == <<"think", "thinking", "reasoning">>

RECURSIVE remove_thinking(_, _)
remove_thinking(s, patterns) ==
    IF patterns = << >> THEN s
    ELSE remove_thinking(re_sub(s, 1, Head(patterns)), Tail(patterns))

\* the first attempt that gives a record (or raises) ends the parse
RECURSIVE first_result(_, _)
first_result(attempts, model_class) ==
    IF Len(attempts) = 0 THEN None
    ELSE LET result == try_parse_and_validate(Head(attempts).json_str,
                                              Head(attempts).source, model_class)
         IN  IF result.raised \/ result.record # 0 THEN result
             ELSE first_result(Tail(attempts), model_class)

RECURSIVE all_block_attempts(_, _)
all_block_attempts(cleaned, patterns) ==
    IF patterns = << >> THEN << >>
    ELSE block_attempts(cleaned, Head(patterns))
         \o all_block_attempts(cleaned, Tail(patterns))

parse_json_response(response, model_class) ==
    LET cleaned == fix_duplicate_keys_json(strip(response))
        spans == brace_span(cleaned)
        cleaned_no_thinking == strip(remove_thinking(cleaned, thinking_patterns))
        spans_no_thinking == brace_span(cleaned_no_thinking)
        strategy1 == <<Attempt(cleaned, "direct parsing")>>
        strategy2 == all_block_attempts(cleaned, json_patterns)
        strategy3 == [j \in DOMAIN spans |-> Attempt(spans[j], "brace extraction")]
        strategy4 ==
            IF remove_thinking(cleaned, thinking_patterns) # cleaned
            THEN <<Attempt(cleaned_no_thinking, "after removing thinking tags")>>
                 \o [j \in DOMAIN spans_no_thinking |->
                        Attempt(spans_no_thinking[j], "braces after removing thinking")]
            ELSE << >>
    IN  first_result(strategy1 \o strategy2 \o strategy3 \o strategy4, model_class)

\* parse_json_response called by itself on every reply of at most MaxSegs segments
ParserInit ==
    /\ NoRun
    /\ \E text \in Texts, model_class \in Schemas :
         call = [fn |-> "parse_json_response", text |-> text,
                 model_class |-> model_class, out |-> << >>]

ParserCall ==
    /\ call.fn = "parse_json_response"
    /\ call.out = << >>
    /\ call' = [call EXCEPT !.out =
                  <<parse_json_response(Render(call.text, 1), call.model_class)>>]
    /\ UNCHANGED run

ParserNext == ParserCall

ParserSpec == ParserInit /\ [][ParserNext]_vars

ParserDone == call.out # << >>
Parsed == call.out[1]

\* the text in the segment is a record of the schema (a repeated key line is
\* repaired before any strategy runs)
Valid(sg, model_class) ==
    \/ sg.content \in {"fix", "dupfix"}
    \/ sg.content = "review" /\ model_class = "CodeReview"

\* the segments of the reply whose text is a record of the schema asked for
ValidSegs(kinds, tags) ==
    { i \in DOMAIN call.text :
        /\ call.text[i].kind \in kinds
        /\ call.text[i].tag \in tags
        /\ Valid(call.text[i], call.model_class) }

Thinking == { i \in DOMAIN call.text : call.text[i].kind = "think" }

\* apart from white space and the segments left out, the reply is one bare
\* object, a record of the schema: its number, else 0
WholeRecord(without) ==
    LET rest == { i \in DOMAIN call.text \ without : call.text[i].kind # "blank" }
    IN  IF \E i \in rest : rest = {i} /\ i \in ValidSegs({"object"}, {""})
        THEN CHOOSE i \in rest : TRUE ELSE 0

\* apart from the segments left out, one segment only has braces and its text is
\* a record of the schema: its number, else 0
BraceRecord(without) ==
    LET braces == { i \in DOMAIN call.text \ without : call.text[i].content # "words" }
    IN  IF \E i \in braces : braces = {i} /\ Valid(call.text[i], call.model_class)
        THEN CHOOSE i \in braces : TRUE ELSE 0

BlockSources == {"code block (json fence)", "code block (fence)", "code block (backtick)"}

\* the blocks strategy 2 can read a record from: fences tagged json or untagged,
\* and inline spans
BlockRecords == ValidSegs({"fence"}, {"json", ""}) \cup ValidSegs({"inline"}, {""})

\* C17: parse_json_response never raises, for whatever reply and either schema;
\* it returns None when no part of the reply is a record of the schema, and
\* otherwise a record that validates; a candidate that fails to decode or to
\* validate does not keep a later candidate from being tried, so a reply with a
\* valid json-tagged or untagged fenced block always gives a record.
C17_ParserTotality ==
    ParserDone =>
        /\ ~Parsed.raised
        /\ (\A i \in DOMAIN call.text : ~Valid(call.text[i], call.model_class))
             => Parsed = None
        /\ Parsed # None =>
             /\ Parsed.record \in DOMAIN call.text
             /\ Valid(call.text[Parsed.record], call.model_class)
        /\ ValidSegs({"fence"}, {"json", ""}) # {} => Parsed # None

\* nothing validates: one candidate did not decode and one did not validate
C17_Witness ==
    /\ ParserDone
    /\ Parsed = None
    /\ \E i, j \in DOMAIN call.text :
         call.text[i].content = "garbage" /\ call.text[j].content = "wrong"

\* C18: the record returned is that of the first of these that validates: (1) the
\* whole trimmed text, (2) the content of a fenced block or span, (3) the text
\* from the first { to the last }, (4) the text without its thinking regions,
\* whole and then from its first { to its last }; None if none does.
C18_RecoveryOrder ==
    ParserDone =>
        IF WholeRecord({}) # 0
        THEN Parsed = ParseResult(WholeRecord({}), "direct parsing", FALSE)
        ELSE IF BlockRecords # {}
        THEN Parsed.record \in BlockRecords /\ Parsed.via \in BlockSources
        ELSE IF BraceRecord({}) # 0
        THEN Parsed = ParseResult(BraceRecord({}), "brace extraction", FALSE)
        ELSE IF Thinking # {} /\ WholeRecord(Thinking) # 0
        THEN Parsed = ParseResult(WholeRecord(Thinking), "after removing thinking tags", FALSE)
        ELSE IF Thinking # {} /\ BraceRecord(Thinking) # 0
        THEN Parsed = ParseResult(BraceRecord(Thinking), "braces after removing thinking", FALSE)
        ELSE Parsed = None

\* only the last strategy finds the record: the thinking region has braces and the
\* record is in a block tagged python
C18_Witness ==
    /\ ParserDone
    /\ Parsed.via = "braces after removing thinking"
    /\ call.text[1] = Segment("think", "think", "garbage")
    /\ call.text[2].kind = "fence"

Fences == { i \in DOMAIN call.text : call.text[i].kind = "fence" }

\* C19: of several fenced blocks, tagged or not, the record returned
\* is that of the earliest block whose content validates.
C19_Original ==
    (ParserDone /\ Cardinality(Fences) >= 2
       /\ ValidSegs({"fence"}, {"json", "", "python"}) # {})
    => Parsed.record = Minimum(ValidSegs({"fence"}, {"json", "", "python"}))

\* C19 (amended): of several fenced blocks the record returned is that of the
\* earliest block tagged json whose content validates; if there is none, that of
\* the earliest untagged block whose content validates.
C19_JsonFencesFirst ==
    (ParserDone /\ Cardinality(Fences) >= 2) =>
        /\ ValidSegs({"fence"}, {"json"}) # {} =>
             Parsed = ParseResult(Minimum(ValidSegs({"fence"}, {"json"})),
                                  "code block (json fence)", FALSE)
        /\ (ValidSegs({"fence"}, {"json"}) = {} /\ ValidSegs({"fence"}, {""}) # {}) =>
             Parsed = ParseResult(Minimum(ValidSegs({"fence"}, {""})),
                                  "code block (fence)", FALSE)

\* an untagged block with a record comes first and the record of the later block
\* tagged json is returned
C19_Witness ==
    /\ ParserDone
    /\ call.text = <<Segment("fence", "", "fix"), Segment("fence", "json", "fix")>>
    /\ Parsed.record = 2

(***************************************************************************)
(* _normalize_to_string_list, agents/graph.py.  An item of the list is a   *)
(* string, a dict or another value; of a dict the model keeps, for each of *)
(* the keys the function looks at, whether the key is absent or what type  *)
(* its value has: "str", or "other" for a number, null, a list or a dict.  *)
(***************************************************************************)
Item(type, description, line, message, text) ==
    [type |-> type, description |-> description, line |-> line,
     message |-> message, text |-> text]

StrItem == Item("str", "absent", "absent", "absent", "absent")
OtherItem == Item("other", "absent", "absent", "absent", "absent")

Items ==
    { StrItem, OtherItem }
    \cup { Item("dict", d, l, m, t) :
             d \in {"absent", "str", "other"}, l \in {"absent", "other"},
             m \in {"absent", "str", "other"}, t \in {"absent", "str", "other"} }

Lists == SeqsUpTo(Items, MaxItems)

\* an element of the result: its type and what it was made from
Element(type, from) == [type |-> type, from |-> from]

\* what the loop appends for one item
normalized(item) ==
    IF item.type = "str" THEN Element("str", "item")
    ELSE IF item.type = "dict"
    THEN IF item.description # "absent"
         THEN IF item.line # "absent"
              THEN Element("str", "Line N: description")
              ELSE Element(item.description, "description")
         ELSE IF item.message # "absent" THEN Element(item.message, "message")
         ELSE IF item.text # "absent" THEN Element(item.text, "text")
         ELSE Element("str", "str(item)")
    ELSE Element("str", "str(item)")

RECURSIVE normalize_to_string_list(_, _)
normalize_to_string_list(items, result) ==
    IF Len(items) = 0 THEN result
    ELSE normalize_to_string_list(Tail(items), Append(result, normalized(Head(items))))

\* _normalize_to_string_list called by itself on every list of at most MaxItems items
NormalizeInit ==
    /\ NoRun
    /\ \E items \in Lists :
         call = [fn |-> "_normalize_to_string_list", items |-> items, out |-> << >>]

NormalizeCall ==
    /\ call.fn = "_normalize_to_string_list"
    /\ call.out = << >>
    /\ call' = [call EXCEPT !.out = <<normalize_to_string_list(call.items, << >>)>>]
    /\ UNCHANGED run

NormalizeNext == NormalizeCall

NormalizeSpec == NormalizeInit /\ [][NormalizeNext]_vars

NormalizeDone == call.out # << >>
Normalized == call.out[1]

\* what the claim says an item becomes
Claimed(item) ==
    IF item.type = "str" THEN "item"
    ELSE IF item.type # "dict" THEN "str(item)"
    ELSE IF item.description # "absent" /\ item.line # "absent" THEN "Line N: description"
    ELSE IF item.description # "absent" THEN "description"
    ELSE IF item.message # "absent" THEN "message"
    ELSE IF item.text # "absent" THEN "text"
    ELSE "str(item)"

\* C20: the result has the length and the order of the input and
\* every element of it is a string: the item itself, the description of a dict
\* (with "Line N: " before it when the dict has a line), else its message, else
\* its text, else the string form of the item.
C20_ListNormalization ==
    NormalizeDone =>
        /\ Len(Normalized) = Len(call.items)
        /\ \A i \in DOMAIN call.items :
             /\ Normalized[i].from = Claimed(call.items[i])
             /\ Normalized[i].type = "str"

(***************************************************************************)
(* _adapt_response_to_schema and the validation that follows it in         *)
(* try_parse_and_validate, agents/graph.py and models/schemas.py.  A       *)
(* decoded object holds, for each field of the two schemas, "absent" or a  *)
(* value.  A value of a string field is "str" (a string with characters),  *)
(* "empty" (the empty string) or "scalar" (a number, a boolean or null); a *)
(* value of a list field is a record: absent, a scalar, or a list of       *)
(* items; a severity is the text of a string, or "number".                 *)
(***************************************************************************)
StringValues == {"absent", "str", "empty", "scalar"}

SeverityValues == {"absent", "low", "HIGH", "Medium", "critical", "number"}

ListValue(type, items) == [type |-> type, items |-> items]

ListValues ==
    { ListValue("absent", << >>), ListValue("scalar", << >>),
      ListValue("list", <<StrItem>>),
      ListValue("list", <<Item("dict", "other", "absent", "absent", "absent")>>) }

ListFields == {"issues", "suggestions", "changes_made"}

DecodedObjects ==
    [ issues : ListValues, suggestions : { v \in ListValues : v.type # "scalar" },
      severity : SeverityValues, summary : StringValues \ {"empty"},
      code : StringValues, explanation : StringValues \ {"empty"},
      changes_made : { v \in ListValues : v.type # "scalar" } ]

\* key in data
present(data, key) ==
    IF key \in ListFields THEN data[key].type # "absent" ELSE data[key] # "absent"

\* isinstance(value, list)
is_list(value) == value.type = "list"

\* isinstance(value, str)
is_str(value) == value \in {"str", "empty"}

\* str(value) of a value that is no string: the digits of a number, True, None
str(value) == IF value = "scalar" THEN "str" ELSE value

\* str.lower()
lower(text) ==
    IF text = "HIGH" THEN "high" ELSE IF text = "Medium" THEN "medium" ELSE text

severity_kept(severity) == severity
\* graph.py 131-135: the lower-case form if it is allowed, else "medium"
severity_normalized(severity) ==
    IF lower(severity) \notin {"low", "medium", "high"} THEN "medium" ELSE lower(severity)

normalized_list(value) ==
    IF is_list(value)
    THEN ListValue("list", normalize_to_string_list(value.items, << >>))
    ELSE value

adapt_response_to_schema(data, model_class) ==
    IF model_class = "CodeReview"
    THEN [data EXCEPT
            !.issues = normalized_list(@),
            !.suggestions = normalized_list(@),
            !.severity = IF @ # "absent" THEN severity_normalized(@) ELSE @,
            !.summary = IF @ # "absent" /\ ~is_str(@) THEN str(@) ELSE @]
    ELSE [data EXCEPT
            !.changes_made = normalized_list(@),
            !.code = IF @ # "absent" /\ ~is_str(@) THEN str(@) ELSE @]

\* pydantic: a field typed str takes a string only
valid_str(value) == is_str(value)

\* a field typed list[str] takes a list whose elements are strings
valid_list(value) ==
    /\ is_list(value)
    /\ \A i \in DOMAIN value.items : value.items[i].type = "str"

\* a field typed Literal["low", "medium", "high"]
valid_severity(value) == value \in {"low", "medium", "high"}

\* the fields of a schema: whether the field is required, and what it takes
required(model_class) == IF model_class = "FixedCode" THEN {"code"} ELSE {}

fields(model_class) ==
    IF model_class = "CodeReview"
    THEN {"issues", "suggestions", "severity", "summary"}
    ELSE {"code", "explanation", "changes_made"}

valid(field, value) ==
    IF field \in ListFields THEN valid_list(value)
    ELSE IF field = "severity" THEN valid_severity(value)
    ELSE valid_str(value)

\* the default of a field that has one
default(field) ==
    IF field \in ListFields THEN ListValue("list", << >>)
    ELSE IF field = "severity" THEN "low"
    ELSE "empty"

\* model_class(**adapted): the fields that fail validation; keys that are no
\* field of the schema are ignored
validation_errors(adapted, model_class) ==
    { f \in fields(model_class) :
        IF present(adapted, f) THEN ~valid(f, adapted[f])
        ELSE f \in required(model_class) }

\* validated.model_dump()
model_dump(adapted, model_class) ==
    [f \in fields(model_class) |->
        IF present(adapted, f) THEN adapted[f] ELSE default(f)]

\* graph.py 180-188: the adapted object, the fields that failed, and the dict
\* returned (None when validation raised)
adapt_and_validate(data, model_class) ==
    LET adapted == adapt_response_to_schema(data, model_class)
        errors == validation_errors(adapted, model_class)
    IN  [adapted |-> adapted, errors |-> errors,
         returned |-> IF errors = {} THEN <<model_dump(adapted, model_class)>> ELSE << >>]

\* the two steps called by themselves on every decoded object
AdaptInit ==
    /\ NoRun
    /\ \E data \in DecodedObjects, model_class \in Schemas :
         call = [fn |-> "_adapt_response_to_schema", data |-> data,
                 model_class |-> model_class, out |-> << >>]

AdaptCall ==
    /\ call.fn = "_adapt_response_to_schema"
    /\ call.out = << >>
    /\ call' = [call EXCEPT !.out = <<adapt_and_validate(call.data, call.model_class)>>]
    /\ UNCHANGED run

AdaptNext == AdaptCall

AdaptSpec == AdaptInit /\ [][AdaptNext]_vars

AdaptDone == call.out # << >>
Adapted == call.out[1]

\* the fields of a schema that are typed str
StringFields(model_class) ==
    IF model_class = "CodeReview" THEN {"summary"} ELSE {"code", "explanation"}

\* C21: a string field of the schema that holds a non-string scalar
\* is converted to its string form, passes validation, and does not get the
\* record rejected.
C21_ScalarCoercion ==
    AdaptDone =>
        \A f \in StringFields(call.model_class) :
            call.data[f] = "scalar" =>
                /\ Adapted.adapted[f] = "str"
                /\ f \notin Adapted.errors

\* C22: a severity that is present becomes its lower-case form when that is low,
\* medium or high and medium otherwise; the field never fails validation and the
\* severity of the record returned is one of the three.
C22_SeverityNormalization ==
    (AdaptDone /\ call.model_class = "CodeReview") =>
        /\ call.data.severity \in {"low", "critical", "number"} =>
             Adapted.adapted.severity =
                 (IF call.data.severity = "low" THEN "low" ELSE "medium")
        /\ call.data.severity = "HIGH" => Adapted.adapted.severity = "high"
        /\ call.data.severity = "Medium" => Adapted.adapted.severity = "medium"
        /\ "severity" \notin Adapted.errors
        /\ Adapted.returned # << >> =>
             Adapted.returned[1].severity \in {"low", "medium", "high"}

C22_Witness ==
    /\ AdaptDone
    /\ call.model_class = "CodeReview"
    /\ call.data.severity = "critical"
    /\ Adapted.returned # << >>
    /\ Adapted.returned[1].severity = "medium"

(***************************************************************************)
(* More claims about the run.                                              *)
(***************************************************************************)
\* C24: the code of a FixedCode that parsed is not empty, so
\* current_code is never the empty string and no empty script goes to the sandbox.
C24_NonEmptyFixCode == current_code # EmptyCode
(***************************************************************************)
(* _run_agent_thread, app.py: what the caller of run_agent shows when the  *)
(* call raises.  The text of a ConnectionError of the model service names  *)
(* the connection that failed; the text of the UnicodeEncodeError of       *)
(* ast.parse does not.                                                     *)
(***************************************************************************)
\* "connection" in error_msg.lower() or "refused" in error_msg.lower()
names_connection(error) == error = "ConnectionError"

show_error_plain(error) == [guidance |-> FALSE, technical_error |-> error]
\* except Exception as e: the dialog is the text of the exception, under the
\* advice about Ollama when the text names a connection
show_error(error) == [guidance |-> names_connection(error), technical_error |-> error]

C25_OriginalCodeImmutable == [][original_code' = original_code]_vars

C25_Witness ==
    /\ Terminal
    /\ attempt >= 2
    /\ current_code # original_code
    /\ original_code \in InputCodes
\* the structured parse of a Fixing reply failed
ParseFailed(reply) == ~reply.raises /\ reply.json = << >>

\* what the salvage extraction recovered from the reply: a code, or nothing
Salvaged(reply) == IF reply.extracted = << >> THEN {} ELSE {reply.extracted[1]}

C28_FailuresRecorded ==
    [][(pc = "execute" /\ pc' = "evaluate") =>
         error_history' =
             IF execution_result'[1].success THEN error_history
             ELSE Append(error_history, execution_result'[1].error)]_vars
(***************************************************************************)
(* The prompt of fix_node, agents/prompts.py: the sections get_fix_prompt  *)
(* writes.  A section that is left out is << >>.                           *)
(***************************************************************************)
get_fix_prompt_latest_only(code, review_dict, error, previous_attempts) ==
    [code |-> code,
     review |-> IF review_dict # "None" THEN <<review_dict>> ELSE << >>,
     error |-> IF Truthy(error) THEN <<error>> ELSE << >>,
     previous_attempts |->
         IF Len(previous_attempts) > 0
         THEN <<previous_attempts[Len(previous_attempts)]>> ELSE << >>]

\* "## Current Code:", then "## Code Review Feedback:" if review, "## Execution
\* Error:" if error, and "## Previous Attempts" with every entry, numbered, if
\* previous_attempts
get_fix_prompt(code, review_dict, error, previous_attempts) ==
    [code |-> code,
     review |-> IF review_dict # "None" THEN <<review_dict>> ELSE << >>,
     error |-> IF Truthy(error) THEN <<error>> ELSE << >>,
     previous_attempts |-> previous_attempts]

\* graph.py 328-341: the prompt fix_node builds from the state it is given
fix_prompt ==
    LET error == IF Len(execution_result) > 0 THEN execution_result[1].error ELSE NoError
        previous_errors == error_history
    IN  get_fix_prompt(current_code, review, error, previous_errors)

\* C29: a script the gate rejects starts no process; the reason is appended to
\* error_history; the Evaluating pass that follows counts a failed attempt; and
\* the Fixing pass after it, if there is one, puts that reason in its prompt as the
\* execution error, with every entry of error_history under it.
C29_SafetyRejectionFedBack ==
    /\ [][(pc = "execute" /\ pc' = "evaluate"
              /\ execution_result'[1].blocked_import_detected) =>
            /\ exec_pc = "idle"
            /\ child' = NoChild
            /\ execution_result'[1].error.kind = "Security Error"
            /\ error_history' = Append(error_history, execution_result'[1].error)]_vars
    /\ [][(pc = "evaluate" /\ execution_result[1].blocked_import_detected) =>
            /\ attempt' = attempt + 1
            /\ status' # "success"]_vars
    /\ []((pc = "fix" /\ Len(execution_result) > 0
              /\ execution_result[1].blocked_import_detected) =>
            /\ fix_prompt.error = <<execution_result[1].error>>
            /\ fix_prompt.previous_attempts = error_history
            /\ error_history[Len(error_history)] = execution_result[1].error)

\* a Fixing pass that follows a rejection, with an older failure in the history
C29_Witness ==
    /\ pc = "fix"
    /\ attempt >= 2
    /\ Len(execution_result) > 0
    /\ execution_result[1].blocked_import_detected
    /\ Len(error_history) >= 2
    /\ error_history[1] # error_history[Len(error_history)]
(***************************************************************************)
(* The CodeReview that review_node installs when the reply does not parse: *)
(* the value "placeholder" of review stands for this record.               *)
(***************************************************************************)
placeholder_review_high ==
    [issues |-> <<"Could not parse LLM response">>,
     suggestions |-> <<"Try a different model">>,
     severity |-> "high",
     summary |-> "Review parsing failed"]

placeholder_review ==
    [issues |-> <<"Could not parse LLM response">>,
     suggestions |-> <<"Try a different model">>,
     severity |-> "medium",
     summary |-> "Review parsing failed"]

\* C30: a review reply that does not parse makes review the placeholder, of
\* severity medium, adds exactly one to parse_failures, leaves status at reviewing,
\* and the run goes on to fix_node as it does after a reply that parses; no step
\* of the run leads back to review_node, which every run starts with.
C30_ReviewParseFailureAbsorbed ==
    /\ [][(review_node("unparsed")) =>
            /\ review' = "placeholder"
            /\ placeholder_review.severity = "medium"
            /\ parse_failures' = parse_failures + 1
            /\ status' = "reviewing"
            /\ pc' = "fix"
            /\ UNCHANGED <<current_code, attempt, error_history>>]_vars
    /\ [][(pc = "review" /\ exception' = "None") => pc' = "fix"]_vars
    /\ [][pc' # "review"]_vars
    /\ [](pc = "review" <=> (review = "None" /\ exception = "None"))

C30_Witness ==
    /\ pc = "fix"
    /\ attempt = 0
    /\ review = "placeholder"
    /\ parse_failures = 1
    /\ status = "reviewing"

SecondGuardEnded ==
    /\ pc = "END"
    /\ status = "failed"
    /\ ~Result.success
    /\ stuck_loop(parse_failures, attempt, current_code, original_code)

\* C32: a run that the second guard ends has had current_code equal
\* to original_code in every state: once a Fixing pass has made them differ, the
\* second guard never ends that run.
C32_SecondGuardNoProgress ==
    [](current_code # original_code => []~SecondGuardEnded)

\* C33: once a step of the run has set status to success or failed no
\* later step is taken, so status stays as it is and that state is the last one.
C33_TerminalAbsorbing ==
    [][status \notin {"success", "failed"}]_vars

\* the number of Fixing passes the run has completed: one per attempt counted, and
\* one more when the pass of the current cycle is over
FixingPasses ==
    IF pc \in {"review", "fix"} THEN attempt
    ELSE IF pc \in {"execute", "evaluate"} THEN attempt + 1
    ELSE IF pc = "END" THEN (IF status = "success" THEN attempt + 1 ELSE attempt)
    ELSE (IF exception = "UnicodeEncodeError" THEN attempt + 1 ELSE attempt)

\* C34: FixingPasses counts the Fixing passes (a pass that returns adds one, no
\* other step changes it); parse_failures is at most one more than that; and with
\* max_retries >= 2 parse_failures never reaches 2 x max_retries, so no Fixing pass
\* returns the status failed.
C34_ParseFailureGuardUnreachable ==
    /\ [][FixingPasses' =
            FixingPasses + (IF pc = "fix" /\ pc' = "execute" THEN 1 ELSE 0)]_vars
    /\ [](parse_failures <= 1 + FixingPasses)
    /\ [](max_retries >= 2 => ~too_many_parse_failures(parse_failures, max_retries))
    /\ [][(max_retries >= 2 /\ pc = "fix") => status' # "failed"]_vars

\* every reply of the run failed to parse and the guard is still one short
C34_Witness ==
    /\ pc = "END"
    /\ max_retries = 2
    /\ parse_failures = 3
    /\ FixingPasses = 2

\* the number of Executing passes the run has entered
ExecutingPasses ==
    IF pc \in {"review", "fix"} THEN attempt
    ELSE IF pc \in {"execute", "evaluate"} THEN attempt + 1
    ELSE IF pc = "END" THEN (IF status = "success" THEN attempt + 1 ELSE attempt)
    ELSE (IF exception = "UnicodeEncodeError" THEN attempt + 1 ELSE attempt)

\* the number of calls of the model service the run has made, the one that
\* raised included
ModelCalls ==
    IF pc = "review" THEN 0
    ELSE IF pc = "raised" /\ exception = "ConnectionError"
    THEN (IF review = "None" THEN 1 ELSE attempt + 2)
    ELSE 1 + ExecutingPasses

ResultsOf(code) ==
    LET verdicts == { check_code_safety(code, order) : order \in BlockedOrders }
    IN  IF \E v \in verdicts : ~v.safe
        THEN { BlockedResult(v.reason) : v \in verdicts }
        ELSE { ResultOf(e[1], e[2]) : e \in ExitsOf(code) }
             \cup {TimeoutResult, FailedResult}

\* C36: when the run has ended, execution_result is a result of executing the
\* current_code the run ends with, status is success or failed, it is success
\* exactly when that result has success = true, and then the gate accepts the code.
C36_FinalResultMatchesCode ==
    pc = "END" =>
        /\ Len(execution_result) = 1
        /\ Result \in ResultsOf(current_code)
        /\ status \in {"success", "failed"}
        /\ status = "success" <=> Result.success
        /\ status = "success" => \A v \in Verdicts : v.safe /\ ~v.raised

\* a run that ended in success on a code that a later Fixing pass proposed
C36_Witness ==
    /\ pc = "END"
    /\ status = "success"
    /\ attempt >= 1
    /\ current_code # original_code
    /\ Result = SuccessResult

(***************************************************************************)
(* The run with the settings applied meanwhile.  run_agent runs on a       *)
(* worker thread; _apply_settings, on the UI thread, calls update_config,  *)
(* which sets max_retries on the one Config object that the nodes read.    *)
(* call remembers the max_retries the run started with and how often the   *)
(* settings were applied.                                                  *)
(***************************************************************************)
ReconfigInit ==
    /\ max_retries \in 0 .. MaxRetriesBound
    /\ original_code \in InputCodes
    /\ current_code = original_code
    /\ review = "None"
    /\ execution_result = << >>
    /\ attempt = 0
    /\ parse_failures = 0
    /\ error_history = << >>
    /\ status = "reviewing"
    /\ pc = "review"
    /\ exception = "None"
    /\ exec_pc = "idle"
    /\ tmp_exists = FALSE
    /\ tmp_path = FALSE
    /\ child = NoChild
    /\ call = [fn |-> "_apply_settings", started_with |-> max_retries, applied |-> 0]

\* update_config(max_retries=value): setattr on the shared object, at any moment
\* of the run
update_config(value) ==
    /\ call.fn = "_apply_settings"
    /\ call.applied < MaxApplies
    /\ pc \notin {"END", "raised"}
    /\ max_retries' = value
    /\ call' = [call EXCEPT !.applied = @ + 1]
    /\ UNCHANGED <<state, pc, exception, locals>>

ReconfigNext ==
    \/ Next
    \/ \E value \in 0 .. MaxRetriesBound : update_config(value)

ReconfigSpec == ReconfigInit /\ [][ReconfigNext]_vars

\* C37: a run started with max_retries = N has at most max(1, N)
\* Executing passes and ends with attempt <= max(1, N), whatever is applied
\* meanwhile.
C37_RetryBudgetUnderReconfiguration ==
    /\ ExecutingPasses <= Max(1, call.started_with)
    /\ pc = "END" => attempt <= Max(1, call.started_with)

(***************************************************************************)
(* _fix_duplicate_keys_json, agents/graph.py, line by line.  A text is the *)
(* sequence of its lines (split and join on the newline are inverse); of a *)
(* line the model keeps the key that \s*"(\w+)": matches at its start,     *)
(* "none" when it does not match, and the rest of the line.                *)
(***************************************************************************)
Line(key, rest) == [key |-> key, rest |-> rest]

Lines == { Line(key, rest) : key \in {"none", "code", "explanation"}, rest \in {1, 2} }

LineTexts == SeqsUpTo(Lines, MaxLines)

\* re.match(r'\s*"(\w+)":', line): the key, or "none"
key_match(line) == line.key

\* the test of the loop for line i (from 1): the line has a key and the next line
\* has the same
skip_line_after(lines, i) ==
    /\ key_match(lines[i]) # "none"
    /\ i > 1
    /\ key_match(lines[i - 1]) = key_match(lines[i])

skip_line(lines, i) ==
    /\ key_match(lines[i]) # "none"
    /\ i + 1 <= Len(lines)
    /\ key_match(lines[i + 1]) = key_match(lines[i])

\* the loop from line i on
RECURSIVE fix_duplicate_keys_from(_, _, _)
fix_duplicate_keys_from(lines, i, result_lines) ==
    IF i > Len(lines) THEN result_lines
    ELSE fix_duplicate_keys_from(lines, i + 1,
             IF skip_line(lines, i) THEN result_lines ELSE Append(result_lines, lines[i]))

fix_duplicate_keys(lines) == fix_duplicate_keys_from(lines, 1, << >>)

\* the repair called by itself on every text of at most MaxLines lines
RepairInit ==
    /\ NoRun
    /\ \E lines \in LineTexts :
         call = [fn |-> "_fix_duplicate_keys_json", lines |-> lines, out |-> << >>]

RepairCall ==
    /\ call.fn = "_fix_duplicate_keys_json"
    /\ call.out = << >>
    /\ call' = [call EXCEPT !.out = <<fix_duplicate_keys(call.lines)>>]
    /\ UNCHANGED run

RepairNext == RepairCall

RepairSpec == RepairInit /\ [][RepairNext]_vars

RepairDone == call.out # << >>
Repaired == call.out[1]

\* the lines the claim says are dropped
Dropped(lines) ==
    { i \in DOMAIN lines :
        /\ lines[i].key # "none"
        /\ i < Len(lines)
        /\ lines[i + 1].key = lines[i].key }

\* the number of lines up to line i that are not dropped
Rank(lines, i) == Cardinality({ j \in 1 .. i : j \notin Dropped(lines) })

\* line i ends a maximal run of consecutive lines that declare the same key
EndsRun(lines, i) ==
    /\ lines[i].key # "none"
    /\ i = Len(lines) \/ lines[i + 1].key # lines[i].key

\* C38: the result holds, in their order, exactly the lines that are not followed
\* by a line declaring the same key; of a run of same-key lines it is the last
\* that survives; no two consecutive lines of the result declare the same key;
\* and repairing the result again changes nothing.
C38_DuplicateKeyRepair ==
    RepairDone =>
        /\ Len(Repaired) = Len(call.lines) - Cardinality(Dropped(call.lines))
        /\ \A i \in DOMAIN call.lines :
             i \notin Dropped(call.lines) => Repaired[Rank(call.lines, i)] = call.lines[i]
        /\ \A i \in DOMAIN call.lines :
             call.lines[i].key # "none" =>
                 (i \notin Dropped(call.lines) <=> EndsRun(call.lines, i))
        /\ \A i \in 1 .. Len(Repaired) - 1 :
             Repaired[i].key = "none" \/ Repaired[i + 1].key # Repaired[i].key
        /\ fix_duplicate_keys(Repaired) = Repaired

\* three lines declare the same key and the last of them is what is left
C38_Witness ==
    /\ RepairDone
    /\ call.lines = <<Line("code", 1), Line("code", 1), Line("code", 2)>>
    /\ Repaired = <<Line("code", 2)>>

(***************************************************************************)
(* Claims about the list of blocked modules                                *)
(***************************************************************************)
\* the listed modules one of the two passes finds in the code
FoundByEitherPass(code) ==
    Range(ast_found(code)) \cup { m \in Range(blocked_imports) : regex_hit(code, m) }

\* C39: the blocked_imports check_code_safety returns holds the
\* listed modules found by the structural pass and by the textual pass, and each
\* of them once, for every code, also for one that imports the same listed
\* module in several statements.
C39_BlockedReferencesFormASet ==
    (GateDone /\ ~Verdict.raised) =>
        /\ Range(Verdict.blocked_imports) = FoundByEitherPass(call.code)
        /\ \A i, j \in DOMAIN Verdict.blocked_imports :
             Verdict.blocked_imports[i] = Verdict.blocked_imports[j] => i = j

====
